---- MODULE Spec2Model ----
(***************************************************************************)
(* Model of bigrep/jsnot.py: the JSNOT wrapper around decoded JSON data,   *)
(* its backslash-separated path accessor (__getitem__), and the methods    *)
(* at_path, get, has, satisfy and cast built on it.                        *)
(*                                                                         *)
(* Strings are sequences of one-character strings, so that the regular     *)
(* expression DELIMITER_PATTERN and re.split are modelled character by      *)
(* character.  Python values are records [kind, num, str, sub]: kind is    *)
(* the name of the value's Python class, num the number of an int, float   *)
(* or bool, str the characters of a str, sub the items of a dict (a        *)
(* function from keys to values) or of a list (a sequence of values).      *)
(* The semantics are those of Python 3, where json.loads yields str.       *)
(***************************************************************************)
EXTENDS Integers, Sequences, FiniteSets, TLC

VARIABLES obj, last

vars == <<obj, last>>

----------------------------------------------------------------------------
(* Bounds of the model *)

\* longest path string over Alphabet given to the methods
MaxLen == 3

\* longest path string over SplitAlphabet given to re.split alone
MaxSplitLen == 4

----------------------------------------------------------------------------
(* Characters and strings *)

BS == "\\"

QUOTE == "\""

\* the characters the enumerated path strings are made of
Alphabet == {BS, "b", "x"}

\* the characters of the path strings given to re.split alone: the
\* backslash, two characters of the pattern's class and one outside it
SplitAlphabet == {BS, "b", QUOTE, "x"}

RECURSIVE StringsUpTo(_, _)
\* the strings of at most n characters of the set chars
StringsUpTo(n, chars) ==
    IF n = 0 THEN {<<>>}
    ELSE LET shorter == StringsUpTo(n - 1, chars)
         IN  shorter \cup {Append(s, c) : s \in {t \in shorter : Len(t) = n - 1}, c \in chars}

----------------------------------------------------------------------------
(* Python values *)

NoneV == [kind |-> "NoneType", num |-> 0, str |-> <<>>, sub |-> <<>>]

IntV(n) == [kind |-> "int", num |-> n, str |-> <<>>, sub |-> <<>>]

FloatV(n) == [kind |-> "float", num |-> n, str |-> <<>>, sub |-> <<>>]

BoolV(b) == [kind |-> "bool", num |-> IF b THEN 1 ELSE 0, str |-> <<>>, sub |-> <<>>]

StrV(s) == [kind |-> "str", num |-> 0, str |-> s, sub |-> <<>>]

ListV(items) == [kind |-> "list", num |-> 0, str |-> <<>>, sub |-> items]

DictV(f) == [kind |-> "dict", num |-> 0, str |-> <<>>, sub |-> f]

\* the classes of the values above, and object
Classes == {"dict", "list", "str", "int", "float", "bool", "NoneType", "object"}

\* type(val)
TypeOf(val) == val.kind

\* the method resolution order of a class: bool derives from int
Mro(cls) == IF cls = "bool" THEN {"bool", "int", "object"} ELSE {cls, "object"}

\* isinstance(val, classinfo)
IsInstance(val, classinfo) == classinfo \in Mro(TypeOf(val))

----------------------------------------------------------------------------
(* Outcomes of a call: a returned value, a returned JSNOT object (ref      *)
(* tells which: "self", the object the call was made on, or "new", one     *)
(* made by the call), a returned class, or a raised exception.             *)

Return(v) == [tag |-> "return", what |-> "value", val |-> v, ref |-> "", cls |-> ""]

ReturnRef(w) == [tag |-> "return", what |-> "wrapper", val |-> NoneV, ref |-> w, cls |-> ""]

ReturnClass(c) == [tag |-> "return", what |-> "class", val |-> NoneV, ref |-> "", cls |-> c]

Raise(exc, c, v) == [tag |-> "raise", what |-> exc, val |-> v, ref |-> "", cls |-> c]

\* except LookupError: KeyError and IndexError derive from LookupError
IsLookupError(out) == out.tag = "raise" /\ out.what \in {"LookupError", "KeyError", "IndexError"}

----------------------------------------------------------------------------
(* DELIMITER_PATTERN and re.split *)

\* the character class ["/bfnrtu] of the pattern
EscClass == {QUOTE, "/", "b", "f", "n", "r", "t", "u"}

\* the lookahead \\["/bfnrtu] of the pattern matches after position i:
\* a backslash and then a character of the class
Lookahead(s, i) == i + 2 <= Len(s) /\ s[i + 1] = BS /\ s[i + 2] \in EscClass

\* the pattern with its lookahead on the class alone, \\(?!["/bfnrtu])
DelimiterBeforeClass(s, i) == s[i] = BS /\ ~(i + 1 <= Len(s) /\ s[i + 1] \in EscClass)

\* DELIMITER_PATTERN matches at position i of s: a backslash at which the
\* negative lookahead succeeds
DELIMITER_PATTERN(s, i) == s[i] = BS /\ ~Lookahead(s, i)

RECURSIVE SplitFrom(_, _, _)
SplitFrom(s, i, cur) ==
    IF i > Len(s) THEN <<cur>>
    ELSE IF DELIMITER_PATTERN(s, i) THEN <<cur>> \o SplitFrom(s, i + 1, <<>>)
    ELSE SplitFrom(s, i + 1, Append(cur, s[i]))

\* re.split(JSNOT.DELIMITER_PATTERN, item)
Split(item) == SplitFrom(item, 1, <<>>)

----------------------------------------------------------------------------
(* Indexing and __getitem__ *)

\* prev[cur] for a str cur
Index(prev, cur) ==
    IF prev.kind = "dict"
    THEN IF cur \in DOMAIN prev.sub THEN Return(prev.sub[cur])
         ELSE Raise("KeyError", "", StrV(cur))
    ELSE Raise("TypeError", "", NoneV)

RECURSIVE Reduce(_, _, _)
\* reduce(lambda prev, cur: prev[cur], parts, root), from part i on
Reduce(parts, i, prev) ==
    IF i > Len(parts) THEN Return(prev)
    ELSE LET r == Index(prev, parts[i])
         IN  IF r.tag = "raise" THEN r ELSE Reduce(parts, i + 1, r.val)

\* __getitem__ without its isinstance(root, dict) test
GetItemOfAnyRoot(root, item) == Reduce(Split(item), 1, root)

\* JSNOT.__getitem__(self, item) where self._value = root
GetItemOf(root, item) ==
    IF root.kind = "dict" THEN Reduce(Split(item), 1, root) ELSE Return(root)

----------------------------------------------------------------------------
(* json.loads, on the texts the model decodes: texts without white space   *)
(* that are a run of digits, a literal name, a quoted string without       *)
(* escapes, or start with a letter                                         *)

Digits == {"0", "1", "2", "3", "4", "5", "6", "7", "8", "9"}

DigitVal(c) == CHOOSE n \in 0..9 : ToString(n) = c

RECURSIVE IntOf(_)
IntOf(text) ==
    IF text = <<>> THEN 0
    ELSE 10 * IntOf(SubSeq(text, 1, Len(text) - 1)) + DigitVal(text[Len(text)])

IsIntText(text) ==
    /\ Len(text) > 0
    /\ \A i \in 1..Len(text) : text[i] \in Digits
    /\ (Len(text) > 1 => text[1] # "0")

IsQuotedText(text) ==
    /\ Len(text) >= 2
    /\ text[1] = QUOTE
    /\ text[Len(text)] = QUOTE
    /\ \A i \in 2..(Len(text) - 1) : text[i] \notin {QUOTE, BS}

\* json.loads(text)
JsonLoads(text) ==
    IF IsIntText(text) THEN Return(IntV(IntOf(text)))
    ELSE IF text = <<"t", "r", "u", "e">> THEN Return(BoolV(TRUE))
    ELSE IF text = <<"f", "a", "l", "s", "e">> THEN Return(BoolV(FALSE))
    ELSE IF text = <<"n", "u", "l", "l">> THEN Return(NoneV)
    ELSE IF IsQuotedText(text) THEN Return(StrV(SubSeq(text, 2, Len(text) - 1)))
    ELSE Raise("JSONDecodeError", "", NoneV)

\* JSNOT.__init__(self, value): the outcome holds the new object's _value.
\* No file-like value is modelled.
InitOf(value) ==
    IF value.kind = "str" THEN JsonLoads(value.str) ELSE Return(value)

----------------------------------------------------------------------------
(* The methods, as functions of self._value *)

\* JSNOT.at_path: the outcome holds the _value of the JSNOT object returned
AtPathOf(value, path) ==
    LET r == GetItemOf(value, path)
    IN  IF r.tag = "raise" THEN r ELSE InitOf(r.val)

\* JSNOT.get: as at_path, or the default returned as it is
GetOf(value, path, default) ==
    LET r == AtPathOf(value, path)
    IN  IF IsLookupError(r) THEN Return(default) ELSE r

\* JSNOT.has
HasOf(value, path) ==
    LET r == GetItemOf(value, path)
    IN  IF IsLookupError(r) THEN Return(BoolV(FALSE))
        ELSE IF r.tag = "raise" THEN r
        ELSE Return(BoolV(TRUE))

\* satisfy raising a TypeError that does not carry classinfo
SatisfyOfNoArg(value, classinfo) ==
    IF ~IsInstance(value, classinfo) THEN Raise("TypeError", "", NoneV)
    ELSE ReturnRef("self")

\* JSNOT.satisfy
SatisfyOf(value, classinfo) ==
    IF ~IsInstance(value, classinfo) THEN Raise("TypeError", classinfo, NoneV)
    ELSE ReturnRef("self")

\* JSNOT.cast; typ = "None" stands for None
CastOf(value, typ) ==
    IF typ # "None" THEN ReturnClass(TypeOf(value)) ELSE Return(value)

----------------------------------------------------------------------------
(* The data wrapped *)

\* {"test": {"goes": {"deep": "19"}, "or": 20}}, the example of __init__
DocExample ==
    <<"t", "e", "s", "t">> :>
        DictV(  (<<"g", "o", "e", "s">> :>
                    DictV(<<"d", "e", "e", "p">> :> StrV(<<"1", "9">>)))
             @@ (<<"o", "r">> :> IntV(20)))

\* a mapping whose keys are strings over Alphabet:
\* {"x": {"": {"b": 1}, "b": "19", "x": "hi"}, "x\\": {"b": 3}, "b": [1],
\*  "": {"x": null, "b": true, "": {"b": 5}}, "bb": 2, "xx": 1.0}
DocSmall ==
       (<<"x">> :> DictV(  (<<>> :> DictV(<<"b">> :> IntV(1)))
                        @@ (<<"b">> :> StrV(<<"1", "9">>))
                        @@ (<<"x">> :> StrV(<<"h", "i">>))))
    @@ (<<"x", BS>> :> DictV(<<"b">> :> IntV(3)))
    @@ (<<"b">> :> ListV(<<IntV(1)>>))
    @@ (<<>> :> DictV(  (<<"x">> :> NoneV)
                     @@ (<<"b">> :> BoolV(TRUE))
                     @@ (<<>> :> DictV(<<"b">> :> IntV(5)))))
    @@ (<<"b", "b">> :> IntV(2))
    @@ (<<"x", "x">> :> FloatV(1))

\* the decoded data the first JSNOT object is made of: both mappings in one
Doc == DictV(DocExample @@ DocSmall)

\* the path strings of the examples
ExamplePaths ==
    { <<"t", "e", "s", "t", BS, "g", "o", "e", "s", BS, "d", "e", "e", "p">>,
      <<"t", "e", "s", "t", BS, "n", "o", "m", "a", "t", "c", "h">>,
      <<"t", "e", "s", "t", BS, "o", "r">>,
      <<"x", BS, BS, "b">> }

\* the path strings given to the methods
Paths == StringsUpTo(MaxLen, Alphabet) \cup ExamplePaths

\* the path strings given to re.split alone
SplitPaths ==
    StringsUpTo(MaxSplitLen, SplitAlphabet) \cup ExamplePaths
        \cup {<<"a", BS, "b">>, <<"a", BS, BS, "b">>}

\* the default values given to get
Defaults == {IntV(-1), StrV(<<"h", "i">>)}

\* the values given to JSNOT(...) later on: a number, and JSON texts
Sources == {IntV(20), StrV(<<QUOTE, "h", "i", QUOTE>>), StrV(<<"h", "i">>)}

----------------------------------------------------------------------------
(* The state machine.  obj is the JSNOT object the caller holds, given by  *)
(* its _value: first the one made of Doc, then the one that JSNOT(...),    *)
(* at_path or get returned last.  last is the last call made on obj and    *)
(* its outcome.                                                            *)

\* no object: the value of a call that is made on none
NoObject == [kind |-> "", num |-> 0, str |-> <<>>, sub |-> <<>>]

\* a call of op on the object whose _value was value when called
Call(op, value, path, arg, cls, out) ==
    [op |-> op, value |-> value, path |-> path, arg |-> arg, cls |-> cls, out |-> out]

Init ==
    /\ obj = Doc
    /\ last = Call("init", NoObject, <<>>, Doc, "", ReturnRef("new"))

\* the call op with the outcome r of JSNOT(...): a returned value is the
\* _value of a new JSNOT object, which the caller holds from now on
Made(op, value, path, arg, r) ==
    /\ obj' = IF r.tag = "return" THEN r.val ELSE obj
    /\ last' = Call(op, value, path, arg, "", IF r.tag = "return" THEN ReturnRef("new") ELSE r)

\* obj = JSNOT(value)
Construct(value) == Made("init", NoObject, <<>>, value, InitOf(value))

\* obj[item]
GetItem(item) ==
    /\ last' = Call("getitem", obj, item, NoneV, "", GetItemOf(obj, item))
    /\ UNCHANGED obj

\* obj = obj.at_path(path)
AtPath(path) == Made("at_path", obj, path, NoneV, AtPathOf(obj, path))

\* obj.get(path, default), the caller holding the JSNOT object it returns
Get(path, default) ==
    IF IsLookupError(AtPathOf(obj, path))
    THEN /\ last' = Call("get", obj, path, default, "", GetOf(obj, path, default))
         /\ UNCHANGED obj
    ELSE Made("get", obj, path, default, GetOf(obj, path, default))

\* obj.has(path)
Has(path) ==
    /\ last' = Call("has", obj, path, NoneV, "", HasOf(obj, path))
    /\ UNCHANGED obj

\* obj.satisfy(classinfo)
Satisfy(classinfo) ==
    /\ last' = Call("satisfy", obj, <<>>, NoneV, classinfo, SatisfyOf(obj, classinfo))
    /\ UNCHANGED obj

\* obj.cast(typ)
Cast(typ) ==
    /\ last' = Call("cast", obj, <<>>, NoneV, typ, CastOf(obj, typ))
    /\ UNCHANGED obj

Next ==
    \/ \E value \in Sources : Construct(value)
    \/ \E item \in Paths : GetItem(item)
    \/ \E path \in Paths : AtPath(path)
    \/ \E path \in Paths, default \in Defaults : Get(path, default)
    \/ \E path \in Paths : Has(path)
    \/ \E classinfo \in Classes : Satisfy(classinfo)
    \/ \E typ \in Classes \cup {"None"} : Cast(typ)

Spec == Init /\ [][Next]_vars

----------------------------------------------------------------------------
(* re.split alone: a path string is drawn, then split *)

\* the list of str that re.split returns
Segments(item) == ListV([i \in 1..Len(Split(item)) |-> StrV(Split(item)[i])])

InitSplit ==
    /\ obj = Doc
    /\ \E item \in SplitPaths : last = Call("item", NoObject, item, NoneV, "", Return(NoneV))

\* parts = re.split(JSNOT.DELIMITER_PATTERN, item)
ReSplit ==
    /\ last.op = "item"
    /\ last' = Call("split", NoObject, last.path, NoneV, "", Return(Segments(last.path)))
    /\ UNCHANGED obj

NextSplit == ReSplit

SpecSplit == InitSplit /\ [][NextSplit]_vars

----------------------------------------------------------------------------
(* What the properties below are stated with *)

RECURSIVE PlainFrom(_, _, _)
PlainFrom(s, i, cur) ==
    IF i > Len(s) THEN <<cur>>
    ELSE IF s[i] = BS THEN <<cur>> \o PlainFrom(s, i + 1, <<>>)
    ELSE PlainFrom(s, i + 1, Append(cur, s[i]))

\* the keys k1..kn without backslash of which the path is the join
KeysOf(path) == PlainFrom(path, 1, <<>>)

RECURSIVE Nested(_, _, _)
\* value[k_i]...[k_n] by hand: the sub-value, or why there is none
Nested(value, ks, i) ==
    IF i > Len(ks) THEN [r |-> "value", v |-> value]
    ELSE IF value.kind # "dict" THEN [r |-> "nonmapping", v |-> NoneV]
    ELSE IF ks[i] \notin DOMAIN value.sub THEN [r |-> "missing", v |-> NoneV]
    ELSE Nested(value.sub[ks[i]], ks, i + 1)

\* the lookup failure KeyNotFound
IsKeyNotFound(out) == out.tag = "raise" /\ out.what = "KeyError"

True == Return(BoolV(TRUE))

False == Return(BoolV(FALSE))

\* the nine escape indicator characters
EscapeIndicators == {QUOTE, BS, "/", "b", "f", "n", "r", "t", "u"}

RECURSIVE Offset(_, _)
\* the position in the path of the delimiter after the m-th of the segments
Offset(parts, m) == IF m = 0 THEN 0 ELSE Offset(parts, m - 1) + Len(parts[m].str) + 1

\* the positions at which the path was split into the segments returned
SplitPoints(parts) == {Offset(parts, m) : m \in 1..(Len(parts) - 1)}

\* the segments as the list re.split returns
Strs(parts) == ListV([i \in 1..Len(parts) |-> StrV(parts[i])])

\* the paths of the examples
TestGoesDeep == <<"t", "e", "s", "t", BS, "g", "o", "e", "s", BS, "d", "e", "e", "p">>

TestNomatch == <<"t", "e", "s", "t", BS, "n", "o", "m", "a", "t", "c", "h">>

----------------------------------------------------------------------------
(* C1 *)

\* no empty key other than the first is followed by a key that begins with
\* a character of the pattern's class
NoEmptyKeyBeforeClass(ks) ==
    \A i \in 2..(Len(ks) - 1) :
        ks[i] = <<>> => (ks[i + 1] = <<>> \/ ks[i + 1][1] \notin EscClass)

----------------------------------------------------------------------------
(* C2, C3: under SpecSplit *)

\* C2: a backslash of the path is a split point exactly when the character
\* after it is not one of the nine escape indicators (the end of the path
\* counts as not an escape indicator).
C2_SplitRule ==
    last.op = "split" =>
        \A i \in 1..Len(last.path) :
            last.path[i] = BS =>
                (i \in SplitPoints(last.out.val.sub)
                    <=> ~(i + 1 <= Len(last.path) /\ last.path[i + 1] \in EscapeIndicators))

\* C3: the path a\b is split into [a, b], and the path a\\b is not split:
\* it stays the one segment a\\b.
C3_Examples ==
    last.op = "split" =>
        /\ last.path = <<"a", BS, "b">> =>
                last.out = Return(Strs(<< <<"a">>, <<"b">> >>))
        /\ last.path = <<"a", BS, BS, "b">> =>
                last.out = Return(Strs(<< <<"a", BS, BS, "b">> >>))

----------------------------------------------------------------------------
(* C4 .. C7 *)

\* the segments of the call's path all resolve from the mapping it is made on
Resolves == last.value.kind = "dict" /\ GetItemOf(last.value, last.path).tag = "return"

\* the value that indexing by the segments one after the other gives
Resolved == GetItemOf(last.value, last.path).val

\* C4: on a mapping, at_path of a path whose segments all resolve returns a
\* JSNOT object whose cast(None) is the value of the nested indexing,
\* whatever the kind of that value.
C4_AtPathWrapsValue ==
    (last.op = "at_path" /\ Resolves) =>
        /\ last.out = ReturnRef("new")
        /\ CastOf(obj, "None") = Return(Resolved)

\* C5: on a mapping, has returns True or False and raises nothing; it
\* returns True exactly when every segment resolves.
C5_HasIsBoolean ==
    (last.op = "has" /\ last.value.kind = "dict") =>
        /\ last.out \in {True, False}
        /\ last.out = True <=> Resolves

\* C6: on a mapping, get returns the default itself when the path is absent
\* and a JSNOT object of the present value when it is present; it never
\* raises.
C6_GetTwoOutcomes ==
    (last.op = "get" /\ last.value.kind = "dict") =>
        IF Resolves
        THEN last.out = ReturnRef("new") /\ obj = Resolved
        ELSE last.out = Return(last.arg)

\* C7: on a mapping, has returns True exactly when at_path does not raise
\* KeyError; at_path returns a JSNOT object when has returns True and
\* raises KeyError when has returns False.
C7_HasAgreesWithAtPath ==
    (last.op = "has" /\ last.value.kind = "dict") =>
        LET a == AtPathOf(last.value, last.path)
        IN  /\ last.out = True <=> ~IsKeyNotFound(a)
            /\ last.out = True => a.tag = "return"
            /\ last.out = False => IsKeyNotFound(a)

----------------------------------------------------------------------------
(* C8 *)

\* the wrapped value is of the kind: bool is a kind of int, all are object
OfKind(value, kind) ==
    \/ value.kind = kind
    \/ kind = "object"
    \/ value.kind = "bool" /\ kind = "int"

----------------------------------------------------------------------------
(* C9 *)

\* the numbers: the values that int and float convert, keeping the number
IsNumber(value) == value.kind \in {"int", "float", "bool"}

\* typ(value) for a number and typ one of int and float
Converted(value, typ) == [value EXCEPT !.kind = typ]

\* C9: cast(None) returns the wrapped value itself, and cast to int or float
\* of a number returns that number converted to the type: 19 to float is 19.0.
C9_CastConverts ==
    last.op = "cast" =>
        /\ last.cls = "None" => last.out = Return(last.value)
        /\ (last.cls \in {"int", "float"} /\ IsNumber(last.value)) =>
                last.out = Return(Converted(last.value, last.cls))

----------------------------------------------------------------------------
(* C10 *)

\* C10: on an object whose value is not a mapping, __getitem__ returns that
\* value itself for every path, and raises nothing.
C10_NonMappingIgnoresPath ==
    (last.op = "getitem" /\ last.value.kind # "dict") =>
        /\ last.out = Return(last.value)
        /\ obj = last.value

\* __getitem__ of a path of two segments has returned the list it was made on
C10_WitnessList ==
    /\ last.op = "getitem"
    /\ last.value = ListV(<<IntV(1)>>)
    /\ last.path = <<"x", BS, "x">>
    /\ last.out = Return(ListV(<<IntV(1)>>))

====
